---- MODULE Spec2Model ----
(***************************************************************************)
(* Model of the Medical Telegram warehouse orchestration                   *)
(* (pipeline/dagster_pipeline.py, src/scraper.py, src/yolo_detect.py,      *)
(* scripts/load_raw_to_postgres.py).                                       *)
(*                                                                         *)
(* State machines, sharing the raw-data directory                          *)
(* data/raw/telegram_messages where they touch it:                         *)
(*   - one run of the job medical_telegram_pipeline: six ops executed by   *)
(*     the job executor in dependency order, each under its RetryPolicy;   *)
(*   - the sensor new_data_sensor with its persisted cursor, alone and     *)
(*     with the collection step of the run it launches;                    *)
(*   - the daily and weekly schedules with the run config they build;      *)
(*   - two runs of the job active together;                                *)
(*   - the collaborators where they keep state of their own: the paging    *)
(*     loop of scrape_channel, the rows PostgresLoader puts in             *)
(*     raw.telegram_messages and those run_yolo_enrichment puts in         *)
(*     raw.yolo_detections.                                                *)
(*                                                                         *)
(* An op is a generator: the AssetMaterialization events it yields are     *)
(* counted in matCount, the dict it returns is its payload (only the       *)
(* "status" entry is kept, the only entry a later op branches on).  An op  *)
(* attempt that raises is retried while the RetryPolicy allows it and      *)
(* otherwise the step fails; a step whose upstream step did not succeed is *)
(* skipped by the executor.  Partition keys are the date directory names;  *)
(* "%Y-%m-%d" strings compare as dates, so they are numbered 1..MaxDate    *)
(* and the default cursor "1970-01-01" is Epoch, below all of them.        *)
(***************************************************************************)
EXTENDS Integers, Sequences, FiniteSets, TLC

\* ---------------------------------------------------------------- bounds
MaxDate == 2
MaxDay == 14
MaxHistory == 4
MaxLoads == 3
MaxResults == 3
\* batch size of scrape_channel (limit = 100), scaled to the histories above
limit == 2

Dates == 1..MaxDate
Today == MaxDate
Epoch == 0
NoCursor == -1
Channels == {"chemed", "lobelia_cosmetics"}

\* ---------------------------------------------------------------- stages
Scrape == "scrape_telegram_data"
Load == "load_raw_to_postgres"
Dbt == "run_dbt_transformations"
Yolo == "run_yolo_enrichment"
Cache == "refresh_api_cache"
Notify == "send_pipeline_notification"

Stages == {Scrape, Load, Dbt, Yolo, Cache, Notify}

\* declared inputs of each op in the job body
Upstream(s) ==
  CASE s = Scrape -> {}
    [] s = Load -> {Scrape}
    [] s = Dbt -> {Load}
    [] s = Yolo -> {Dbt}
    [] s = Cache -> {Yolo}
    [] s = Notify -> {Cache, Scrape, Load, Dbt, Yolo}

\* RetryPolicy(max_retries=...) of each op; the notification op has none
MaxRetries(s) ==
  CASE s = Scrape -> 2
    [] s = Load -> 3
    [] s = Dbt -> 2
    [] s = Yolo -> 2
    [] s = Cache -> 1
    [] s = Notify -> 0

MaxAttempts(s) == MaxRetries(s) + 1

HasRetryPolicy(s) == s # Notify

\* ops whose except clause re-raises Failure / ops whose except clause returns
FatalStages == {Scrape, Load, Dbt, Yolo}
ToleratedStages == {Cache, Notify}

VARIABLES
  status,      \* step state per op: pending, success, failed, skipped
  attempts,    \* number of invocations of each op in this run
  payload,     \* "status" entry of the dict each op returned, or "none"
  matCount,    \* AssetMaterialization events yielded per op in this run
  errors,      \* times the except clause of each op was entered in this run
  summary,     \* run_<run_id>.json: <<>> or <<the summary written>>
  severity,    \* severity in the pipeline_notification metadata, or "none"
  runStatus,   \* running, success, failure (result.success)
  testFails,   \* dbt attempts whose test results held a non-pass entry
  credentials, \* TELEGRAM_API_ID, TELEGRAM_API_HASH and TELEGRAM_PHONE are set
  wroteToday,  \* the latest scrape attempt wrote a json file of today's partition
  dirs,        \* date directories under data/raw/telegram_messages
  files,       \* files[d]: the <channel>.json files present in directory d
  stale,       \* date directories written since the latest RunRequest
  cursor,      \* persisted context.cursor of new_data_sensor (NoCursor: unset)
  tick,        \* flips at every sensor evaluation
  lastPoll,    \* how the latest evaluation ended
  emitted,     \* run keys of the RunRequests the latest evaluation yielded
  skipped,     \* run keys of the latest evaluation that already had a run
  runs,        \* runs launched for the sensor: [key, date]
  day,         \* the current day; day 0 is a Sunday
  fired,       \* the schedules that have ticked today
  lastTick,    \* the schedule of the latest tick, or "none"
  tickConfig,  \* <<>> or <<the run config the latest tick returned>>
  cStatus,     \* cStatus[r][s]: step state of op s in the concurrent run r
  cPayload,    \* cPayload[r][s]: "status" of the dict op s returned in run r
  cRetried,    \* cRetried[r]: raised attempts of the step run r is retrying
  summaries,   \* data/processed/pipeline_summaries: file name -> <<>> or <<summary>>
  chanHistory, \* the channel's messages, newest first: [id, old]
  offset_id,   \* offset_id of the next GetHistoryRequest
  requests,    \* GetHistoryRequests issued by this scrape_channel call
  messages_data, \* number of messages appended to messages_data
  oldSeen,     \* a message older than start_date has been met
  pagePc,      \* idle, loop, saved, no_messages, error
  telegram_messages, \* raw.telegram_messages: copies of each raw file's rows
  loaderRuns,  \* executions of PostgresLoader.run so far
  yoloPc,      \* position in run_yolo_enrichment: start, detected, loaded, done
  results,     \* <<>> or <<len(results)>> of the detector.run() of this execution
  appended,    \* rows this execution appended to raw.yolo_detections
  yolo_detections, \* rows in raw.yolo_detections
  yoloOutcome, \* <<>> or <<what this execution of the op produced>>
  executions   \* executions of run_yolo_enrichment started in this run

runVars == <<status, attempts, payload, matCount, errors, summary, severity,
             runStatus, testFails, credentials, wroteToday>>
fsVars == <<dirs, files, stale>>
sensorVars == <<cursor, tick, lastPoll, emitted, skipped, runs>>
schedVars == <<day, fired, lastTick, tickConfig>>
concVars == <<cStatus, cPayload, cRetried, summaries>>
pageVars == <<chanHistory, offset_id, requests, messages_data, oldSeen, pagePc>>
dbVars == <<telegram_messages, loaderRuns>>
yoloVars == <<yoloPc, results, appended, yolo_detections, yoloOutcome,
              executions>>
auxVars == <<concVars, pageVars, dbVars, yoloVars>>
auxButConc == <<pageVars, dbVars, yoloVars>>
auxButPage == <<concVars, dbVars, yoloVars>>
auxButDb == <<concVars, pageVars, yoloVars>>
auxButYolo == <<concVars, pageVars, dbVars>>
vars == <<runVars, fsVars, sensorVars, schedVars, auxVars>>

\* ------------------------------------------------------------ op bodies
\* What one invocation of an op produces: ok = it returned (FALSE: it raised
\* Failure), payload = the "status" of the returned dict, mats = the number of
\* AssetMaterialization events yielded before it returned or raised, err = its
\* except clause was entered (logger.error).
Raised(m) == [ok |-> FALSE, payload |-> "none", mats |-> m, err |-> TRUE]
Returned(p, m) == [ok |-> TRUE, payload |-> p, mats |-> m, err |-> FALSE]
Caught(p, m) == [ok |-> TRUE, payload |-> p, mats |-> m, err |-> TRUE]

RaisePoints == {"none", "before_yield", "after_yield"}

\* scraper.run() raised, or returned; then today_dir.exists() decides
ScrapeResult(raised, todayExists) ==
  IF raised THEN Raised(0)
  ELSE IF todayExists THEN Returned("success", 1)
  ELSE Raised(0)

\* mutant: the load op returns without yielding its materialization
LoadResultNoYield(raised) ==
  IF raised THEN Raised(0) ELSE Returned("success", 0)

\* loader.run(), psycopg2.connect or the COUNT query raised, or not
LoadResult(raised) ==
  IF raised THEN Raised(0) ELSE Returned("success", 1)

\* mutant: the test results are not inspected
DbtResultTestsIgnored(runRaised, nFail, docsRaised) ==
  IF runRaised THEN Raised(0)
  ELSE IF docsRaised THEN Raised(0)
  ELSE Returned("success", 1)

\* dbt.run() raised; else nFail = number of test results whose status is not
\* "pass"; dbt.docs_generate() raised
DbtResult(runRaised, nFail, docsRaised) ==
  IF runRaised THEN Raised(0)
  ELSE IF nFail > 0 THEN Raised(0)
  ELSE IF docsRaised THEN Raised(0)
  ELSE Returned("success", 1)

\* detector.run() raised; else nResults = len(results); the lines between it
\* and the yield raised (load_to_postgres itself logs and swallows its
\* errors); the dbt subprocess after the yield failed (check=True)
YoloResult(detRaised, nResults, loadRaised, dbtFailed) ==
  IF detRaised THEN Raised(0)
  ELSE IF nResults = 0 THEN Returned("skipped", 0)
  ELSE IF loadRaised THEN Raised(0)
  ELSE IF dbtFailed THEN Raised(1)
  ELSE Returned("success", 1)

\* mutant: the except clause raises Failure like those of the data ops
CacheResultReraised(raisePoint) ==
  CASE raisePoint = "none" -> Returned("success", 1)
    [] raisePoint = "before_yield" -> Raised(0)
    [] raisePoint = "after_yield" -> Raised(1)

\* the except clause returns {"status": "failed"} instead of raising
CacheResult(raisePoint) ==
  CASE raisePoint = "none" -> Returned("success", 1)
    [] raisePoint = "before_yield" -> Caught("failed", 0)
    [] raisePoint = "after_yield" -> Caught("failed", 1)

\* mutant: an enrichment that was skipped counts as a failure
FailuresSkippedCounted(scrapeP, loadP, dbtP, enrP) ==
  LET f1 == IF scrapeP # "success" THEN <<"scraping">> ELSE <<>>
      f2 == IF loadP # "success" THEN Append(f1, "loading") ELSE f1
      f3 == IF dbtP # "success" THEN Append(f2, "dbt") ELSE f2
  IN IF enrP # "success" THEN Append(f3, "enrichment") ELSE f3

\* failures list of send_pipeline_notification
Failures(scrapeP, loadP, dbtP, enrP) ==
  LET f1 == IF scrapeP # "success" THEN <<"scraping">> ELSE <<>>
      f2 == IF loadP # "success" THEN Append(f1, "loading") ELSE f1
      f3 == IF dbtP # "success" THEN Append(f2, "dbt") ELSE f2
  IN IF enrP \notin {"success", "skipped"} THEN Append(f3, "enrichment") ELSE f3

\* mutant: the test of the failures list is inverted
SeverityInverted(failures) == IF failures = <<>> THEN "ERROR" ELSE "INFO"

Severity(failures) == IF failures # <<>> THEN "ERROR" ELSE "INFO"

SummaryStatus(failures) == IF failures # <<>> THEN "failed" ELSE "success"

Summary(cacheP, scrapeP, loadP, dbtP, enrP) ==
  LET failures == Failures(scrapeP, loadP, dbtP, enrP)
  IN [status |-> SummaryStatus(failures),
      failures |-> failures,
      components |-> [scraping |-> scrapeP, loading |-> loadP, dbt |-> dbtP,
                      enrichment |-> enrP, api_cache |-> cacheP]]

\* mutant: the except clause raises Failure like those of the data ops
NotifyResultReraised(raisePoint, sum) ==
  CASE raisePoint = "none" -> Returned(sum.status, 1)
    [] raisePoint = "before_yield" -> Raised(0)
    [] raisePoint = "after_yield" -> Raised(1)

\* the except clause returns {"status": "notification_failed"}; the summary
\* file is written after the yield
NotifyResult(raisePoint, sum) ==
  CASE raisePoint = "none" -> Returned(sum.status, 1)
    [] raisePoint = "before_yield" -> Caught("notification_failed", 0)
    [] raisePoint = "after_yield" -> Caught("notification_failed", 1)

\* -------------------------------------------------------- job executor
Resolved == {"success", "failed", "skipped"}

\* mutant: a step is dispatched without waiting for the ops feeding it
UpstreamsIgnored(s) == TRUE

\* mutant: a step is dispatched once the ops feeding it ended, failed or not
UpstreamsEnded(s) == \A u \in Upstream(s) : status[u] \in Resolved

\* a step runs once every op feeding it has produced its output
UpstreamsSucceeded(s) == \A u \in Upstream(s) : status[u] = "success"

Ready(s) ==
  /\ runStatus = "running"
  /\ status[s] = "pending"
  /\ UpstreamsSucceeded(s)

\* step state after an attempt: a raised attempt is retried while the
\* RetryPolicy has retries left, otherwise the step fails
StatusAfter(s, ok) ==
  IF ok THEN "success"
  ELSE IF attempts[s] < MaxRetries(s) THEN "pending"
  ELSE "failed"

Finish(s, r) ==
  /\ attempts' = [attempts EXCEPT ![s] = @ + 1]
  /\ matCount' = [matCount EXCEPT ![s] = @ + r.mats]
  /\ errors' = [errors EXCEPT ![s] = @ + (IF r.err THEN 1 ELSE 0)]
  /\ status' = [status EXCEPT ![s] = StatusAfter(s, r.ok)]
  /\ payload' = [payload EXCEPT ![s] = r.payload]

\* _save_messages for a set W of (date, channel) files
WriteFiles(W) ==
  /\ dirs' = dirs \cup {w[1] : w \in W}
  /\ files' = [d \in Dates |-> files[d] \cup {w[2] : w \in {x \in W : x[1] = d}}]
  /\ stale' = stale \cup {w[1] : w \in W}

\* the scraper saved messages dated today: <today>/<channel>.json was written
WritesToday(W) == \E w \in W : w[1] = Today

\* initialize_client raises ValueError when a credential is missing
ClientInitRaises(creds) == ~creds

scrape_telegram_data ==
  /\ Ready(Scrape)
  /\ \E raised \in BOOLEAN, W \in SUBSET (Dates \X Channels) :
       /\ ClientInitRaises(credentials) => (raised /\ W = {})
       /\ WriteFiles(W)
       /\ wroteToday' = WritesToday(W)
       /\ Finish(Scrape, ScrapeResult(raised, Today \in dirs'))
  /\ UNCHANGED <<testFails, credentials, summary, severity, runStatus, sensorVars, schedVars, auxVars>>

load_raw_to_postgres ==
  /\ Ready(Load)
  /\ \E raised \in BOOLEAN : Finish(Load, LoadResult(raised))
  /\ UNCHANGED <<wroteToday, testFails, credentials, summary, severity, runStatus, fsVars, sensorVars, schedVars, auxVars>>

run_dbt_transformations ==
  /\ Ready(Dbt)
  /\ \E runRaised \in BOOLEAN, nFail \in 0..1, docsRaised \in BOOLEAN :
       /\ Finish(Dbt, DbtResult(runRaised, nFail, docsRaised))
       /\ testFails' = testFails + (IF ~runRaised /\ nFail > 0 THEN 1 ELSE 0)
  /\ UNCHANGED <<wroteToday, credentials, summary, severity, runStatus, fsVars, sensorVars, schedVars, auxVars>>

run_yolo_enrichment ==
  /\ Ready(Yolo)
  /\ \E detRaised \in BOOLEAN, nResults \in 0..1, loadRaised \in BOOLEAN,
        dbtFailed \in BOOLEAN :
       Finish(Yolo, YoloResult(detRaised, nResults, loadRaised, dbtFailed))
  /\ UNCHANGED <<wroteToday, testFails, credentials, summary, severity, runStatus, fsVars, sensorVars, schedVars, auxVars>>

refresh_api_cache ==
  /\ Ready(Cache)
  /\ \E raisePoint \in RaisePoints : Finish(Cache, CacheResult(raisePoint))
  /\ UNCHANGED <<wroteToday, testFails, credentials, summary, severity, runStatus, fsVars, sensorVars, schedVars, auxVars>>

send_pipeline_notification ==
  /\ Ready(Notify)
  /\ \E raisePoint \in RaisePoints :
       LET sum == Summary(payload[Cache], payload[Scrape], payload[Load],
                          payload[Dbt], payload[Yolo])
       IN /\ Finish(Notify, NotifyResult(raisePoint, sum))
          /\ severity' = IF raisePoint = "before_yield" THEN severity
                         ELSE Severity(sum.failures)
          /\ summary' = IF raisePoint = "none" THEN <<sum>> ELSE summary
  /\ UNCHANGED <<wroteToday, testFails, credentials, runStatus, fsVars, sensorVars, schedVars, auxVars>>

\* a step none of whose attempts started is skipped once an upstream step
\* failed or was skipped
SkipStep(s) ==
  /\ runStatus = "running"
  /\ status[s] = "pending"
  /\ attempts[s] = 0
  /\ \E u \in Upstream(s) : status[u] \in {"failed", "skipped"}
  /\ status' = [status EXCEPT ![s] = "skipped"]
  /\ UNCHANGED <<wroteToday, testFails, credentials, attempts, payload, matCount, errors, summary, severity,
                 runStatus, fsVars, sensorVars, schedVars, auxVars>>

\* result.success of execute_job: no step failed
RunResult == IF \E s \in Stages : status[s] = "failed" THEN "failure" ELSE "success"

RunFinish ==
  /\ runStatus = "running"
  /\ \A s \in Stages : status[s] \in Resolved
  /\ runStatus' = RunResult
  /\ UNCHANGED <<wroteToday, testFails, credentials, status, attempts, payload, matCount, errors, summary,
                 severity, fsVars, sensorVars, schedVars, auxVars>>

InitRun ==
  /\ status = [s \in Stages |-> "pending"]
  /\ attempts = [s \in Stages |-> 0]
  /\ payload = [s \in Stages |-> "none"]
  /\ matCount = [s \in Stages |-> 0]
  /\ errors = [s \in Stages |-> 0]
  /\ summary = <<>>
  /\ severity = "none"
  /\ runStatus = "running"
  /\ testFails = 0
  /\ credentials \in BOOLEAN
  /\ wroteToday = FALSE

InitSensor ==
  /\ cursor = NoCursor
  /\ tick = 0
  /\ lastPoll = "none"
  /\ emitted = <<>>
  /\ skipped = {}
  /\ runs = {}

\* the raw-data directory before the run: empty, or holding today's partition
\* from an earlier run
InitFs ==
  /\ \E had \in SUBSET {Today} :
       /\ dirs = had
       /\ files = [d \in Dates |-> IF d \in had THEN {"chemed"} ELSE {}]
  /\ stale = {}

InitSchedule ==
  /\ day = 0
  /\ fired = {}
  /\ lastTick = "none"
  /\ tickConfig = <<>>

\* the runs started by the two schedules
RunIds == {"daily", "weekly"}

\* mutant: one summary file for every run
SummaryFileLatest(r) == <<"run", "latest">>

\* summary_file = summary_dir / f"run_{context.run_id}.json"
SummaryFile(r) == <<"run", r>>

SummaryFiles == {SummaryFile(r) : r \in RunIds}

InitConcurrent ==
  /\ cStatus = [r \in RunIds |-> [s \in Stages |-> "pending"]]
  /\ cPayload = [r \in RunIds |-> [s \in Stages |-> "none"]]
  /\ cRetried = [r \in RunIds |-> 0]
  /\ summaries = [f \in SummaryFiles |-> <<>>]

\* before scrape_channel is called
InitPaging ==
  /\ chanHistory = <<>>
  /\ offset_id = 0
  /\ requests = 0
  /\ messages_data = 0
  /\ oldSeen = FALSE
  /\ pagePc = "idle"

\* an empty table, no load executed yet
InitDb ==
  /\ telegram_messages = [f \in Dates \X Channels |-> 0]
  /\ loaderRuns = 0

\* the first execution of run_yolo_enrichment is about to start
InitYolo ==
  /\ yoloPc = "start"
  /\ results = <<>>
  /\ appended = 0
  /\ yolo_detections = 0
  /\ yoloOutcome = <<>>
  /\ executions = 1

Init ==
  /\ InitRun /\ InitFs /\ InitSensor /\ InitSchedule /\ InitConcurrent
  /\ InitPaging
  /\ InitDb
  /\ InitYolo

Next ==
  \/ scrape_telegram_data
  \/ load_raw_to_postgres
  \/ run_dbt_transformations
  \/ run_yolo_enrichment
  \/ refresh_api_cache
  \/ send_pipeline_notification
  \/ \E s \in Stages : SkipStep(s)
  \/ RunFinish

Spec == Init /\ [][Next]_vars

\* ------------------------------------------------------ new_data_sensor
\* cursor = context.cursor or "1970-01-01"
CursorOrDefault(c) == IF c = NoCursor THEN Epoch ELSE c

\* mutant: every directory other than the cursor's counts as new
IsOther(d, c) == d # c

\* date_dir.name > cursor
IsNew(d, c) == d > c

\* new_files: the json files of the date directories above the cursor
NewFiles(c) ==
  {f \in Dates \X Channels :
     f[1] \in dirs /\ IsNew(f[1], CursorOrDefault(c)) /\ f[2] \in files[f[1]]}

\* mutant: min instead of max
EarliestDate(nf) == CHOOSE d \in {f[1] : f \in nf} : \A f \in nf : d <= f[1]

\* max([f.parent.name for f in new_files])
LatestDate(nf) == CHOOSE d \in {f[1] : f \in nf} : \A f \in nf : f[1] <= d

\* mutant: a run key that differs from one evaluation to the next
RunKeyPerTick(latest) == <<"new_data", latest, tick>>

\* run_key=f"new_data_{latest_date}"
RunKey(latest) == <<"new_data", latest>>

\* mutant: the cursor follows the date directories, with or without a request
SensorBodyCursorOnDirs(c) ==
  LET nf == NewFiles(c)
      nd == {d \in dirs : IsNew(d, CursorOrDefault(c))}
  IN [requests |-> IF nf # {}
                   THEN <<[key |-> RunKey(LatestDate(nf)),
                           date |-> LatestDate(nf)]>>
                   ELSE <<>>,
      cursor |-> IF nd # {} THEN CHOOSE d \in nd : \A e \in nd : e <= d ELSE c]

\* the sensor body once the partitions are listed: the RunRequests it yields
\* and the cursor it leaves
SensorBody(c) ==
  LET nf == NewFiles(c)
  IN IF nf # {}
     THEN [requests |-> <<[key |-> RunKey(LatestDate(nf)),
                           date |-> LatestDate(nf)]>>,
           cursor |-> LatestDate(nf)]
     ELSE [requests |-> <<>>, cursor |-> c]

\* mutant: a listing error is swallowed and the cursor moved to today
SensorEvalSwallowing(c, listingOk) ==
  IF ~listingOk THEN [requests |-> <<>>, cursor |-> Today] ELSE SensorBody(c)

\* One evaluation of the sensor against persisted cursor c.  An error while
\* listing data_dir propagates before anything is yielded or updated.
SensorEval(c, listingOk) ==
  IF ~listingOk THEN [requests |-> <<>>, cursor |-> c] ELSE SensorBody(c)

\* a RunRequest whose run_key already has a run launches nothing
Duplicates(reqs) ==
  {reqs[i].key : i \in {j \in 1..Len(reqs) :
                           \E r \in runs : r.key = reqs[j].key}}

Launch(reqs) ==
  runs \cup {reqs[i] : i \in {j \in 1..Len(reqs) :
                                reqs[j].key \notin Duplicates(reqs)}}

\* a completed evaluation: requests submitted, then the cursor persisted
Poll ==
  LET ev == SensorEval(cursor, TRUE)
  IN /\ tick' = 1 - tick
     /\ lastPoll' = IF ev.requests # <<>> THEN "ok" ELSE "empty"
     /\ emitted' = [i \in 1..Len(ev.requests) |-> ev.requests[i].key]
     /\ skipped' = Duplicates(ev.requests)
     /\ runs' = Launch(ev.requests)
     /\ cursor' = ev.cursor
     /\ stale' = IF ev.requests # <<>> THEN {} ELSE stale
     /\ UNCHANGED <<dirs, files, runVars, schedVars, auxVars>>

\* an evaluation that fails while listing the partitions
PollFails ==
  LET ev == SensorEval(cursor, FALSE)
  IN /\ tick' = 1 - tick
     /\ lastPoll' = "failed"
     /\ emitted' = [i \in 1..Len(ev.requests) |-> ev.requests[i].key]
     /\ skipped' = Duplicates(ev.requests)
     /\ runs' = Launch(ev.requests)
     /\ cursor' = ev.cursor
     /\ stale' = IF ev.requests # <<>> THEN {} ELSE stale
     /\ UNCHANGED <<dirs, files, runVars, schedVars, auxVars>>

\* an evaluation cut off after its RunRequest was submitted and before the
\* cursor was persisted
PollInterrupted ==
  LET ev == SensorEval(cursor, TRUE)
  IN /\ ev.requests # <<>>
     /\ tick' = 1 - tick
     /\ lastPoll' = "interrupted"
     /\ emitted' = [i \in 1..Len(ev.requests) |-> ev.requests[i].key]
     /\ skipped' = Duplicates(ev.requests)
     /\ runs' = Launch(ev.requests)
     /\ stale' = {}
     /\ UNCHANGED <<cursor, dirs, files, runVars, schedVars, auxVars>>

\* _save_messages of a scraper running beside the sensor: the date directory
\* is created, then the channel file is written (rewritten when present)
MkDir(d) ==
  /\ d \notin dirs
  /\ dirs' = dirs \cup {d}
  /\ UNCHANGED <<files, stale, sensorVars, runVars, schedVars, auxVars>>

WriteJson(d, ch) ==
  /\ d \in dirs
  /\ WriteFiles({<<d, ch>>})
  /\ UNCHANGED <<sensorVars, runVars, schedVars, auxVars>>

NextSensor ==
  \/ Poll
  \/ PollFails
  \/ PollInterrupted
  \/ \E d \in Dates : MkDir(d)
  \/ \E d \in Dates, ch \in Channels : WriteJson(d, ch)

SpecSensor == Init /\ [][NextSensor]_vars

\* ------------------------------------------- sensor with the run it starts
\* The sensor together with the collection step of the run its RunRequest
\* launches.  Partitions arrive from outside only until the first request;
\* afterwards the raw-data directory changes through the launched run alone.
\* The op reads no config, so the "skip_scraping" entry of the request's
\* run_config changes nothing in it.
ExternalInput ==
  /\ runs = {}
  /\ cursor = NoCursor
  /\ \/ \E d \in Dates : MkDir(d)
     \/ \E d \in Dates, ch \in Channels : WriteJson(d, ch)

TriggeredScrape ==
  /\ runs # {}
  /\ scrape_telegram_data

NextTriggered ==
  \/ ExternalInput
  \/ Poll
  \/ PollFails
  \/ PollInterrupted
  \/ TriggeredScrape

SpecTriggered == Init /\ [][NextTriggered]_vars

\* ------------------------------------------------------------ schedules
\* cron_schedule="0 2 * * *": every day
DailyDue(d) == TRUE

\* cron_schedule="0 0 * * 0": Sundays
WeeklyDue(d) == d % 7 = 0

\* mutant: the daily schedule returns the weekly lookback
DailyConfigFullWeek(T) ==
  [scrape |-> [days_back |-> 7, run_date |-> T], yolo |-> <<>>]

\* run config returned by daily_pipeline_schedule fired at T; no entry for
\* run_yolo_enrichment
DailyConfig(T) ==
  [scrape |-> [days_back |-> 1, run_date |-> T], yolo |-> <<>>]

\* mutant: the weekly schedule keeps the job's cap of 100 images
WeeklyConfigCapped(T) ==
  [scrape |-> [days_back |-> 7, full_refresh |-> TRUE],
   yolo |-> <<[max_images |-> <<100>>]>>]

\* run config returned by weekly_full_pipeline_schedule fired at T;
\* max_images: <<>> is None, <<n>> is a cap of n
WeeklyConfig(T) ==
  [scrape |-> [days_back |-> 7, full_refresh |-> TRUE],
   yolo |-> <<[max_images |-> <<>>]>>]

DailyTick ==
  /\ DailyDue(day)
  /\ "daily" \notin fired
  /\ fired' = fired \cup {"daily"}
  /\ lastTick' = "daily"
  /\ tickConfig' = <<DailyConfig(day)>>
  /\ UNCHANGED <<day, runVars, fsVars, sensorVars, auxVars>>

WeeklyTick ==
  /\ WeeklyDue(day)
  /\ "weekly" \notin fired
  /\ fired' = fired \cup {"weekly"}
  /\ lastTick' = "weekly"
  /\ tickConfig' = <<WeeklyConfig(day)>>
  /\ UNCHANGED <<day, runVars, fsVars, sensorVars, auxVars>>

NextDay ==
  /\ day < MaxDay
  /\ day' = day + 1
  /\ fired' = {}
  /\ UNCHANGED <<lastTick, tickConfig, runVars, fsVars, sensorVars, auxVars>>

NextSchedule ==
  \/ DailyTick
  \/ WeeklyTick
  \/ NextDay

SpecSchedule == Init /\ [][NextSchedule]_vars

\* ------------------------------------------------------ concurrent runs
\* The runs RunIds of the job, active together: the steps of each run are
\* those of the single run above, kept per run id; the runs share the raw-data
\* directory and the directory of the summaries.
CResolved(r) == \A s \in Stages : cStatus[r][s] \in Resolved

CReady(r, s) ==
  /\ cStatus[r][s] = "pending"
  /\ \A u \in Upstream(s) : cStatus[r][u] = "success"

CStatusAfter(r, s, ok) ==
  IF ok THEN "success"
  ELSE IF cRetried[r] < MaxRetries(s) THEN "pending"
  ELSE "failed"

CFinish(r, s, res) ==
  /\ cStatus' = [cStatus EXCEPT ![r][s] = CStatusAfter(r, s, res.ok)]
  /\ cPayload' = [cPayload EXCEPT ![r][s] = res.payload]
  /\ cRetried' = [cRetried EXCEPT ![r] =
                     IF CStatusAfter(r, s, res.ok) = "pending" THEN @ + 1 ELSE 0]

CScrape(r) ==
  /\ CReady(r, Scrape)
  /\ \E raised \in BOOLEAN, W \in SUBSET (Dates \X Channels) :
       /\ ClientInitRaises(credentials) => (raised /\ W = {})
       /\ WriteFiles(W)
       /\ CFinish(r, Scrape, ScrapeResult(raised, Today \in dirs'))
  /\ UNCHANGED <<auxButConc, summaries, runVars, sensorVars, schedVars>>

CLoad(r) ==
  /\ CReady(r, Load)
  /\ \E raised \in BOOLEAN : CFinish(r, Load, LoadResult(raised))
  /\ UNCHANGED <<auxButConc, summaries, runVars, fsVars, sensorVars, schedVars>>

CDbt(r) ==
  /\ CReady(r, Dbt)
  /\ \E runRaised \in BOOLEAN, nFail \in 0..1, docsRaised \in BOOLEAN :
       CFinish(r, Dbt, DbtResult(runRaised, nFail, docsRaised))
  /\ UNCHANGED <<auxButConc, summaries, runVars, fsVars, sensorVars, schedVars>>

CYolo(r) ==
  /\ CReady(r, Yolo)
  /\ \E detRaised \in BOOLEAN, nResults \in 0..1, loadRaised \in BOOLEAN,
        dbtFailed \in BOOLEAN :
       CFinish(r, Yolo, YoloResult(detRaised, nResults, loadRaised, dbtFailed))
  /\ UNCHANGED <<auxButConc, summaries, runVars, fsVars, sensorVars, schedVars>>

CCache(r) ==
  /\ CReady(r, Cache)
  /\ \E raisePoint \in RaisePoints : CFinish(r, Cache, CacheResult(raisePoint))
  /\ UNCHANGED <<auxButConc, summaries, runVars, fsVars, sensorVars, schedVars>>

CNotify(r) ==
  /\ CReady(r, Notify)
  /\ \E raisePoint \in RaisePoints :
       LET sum == Summary(cPayload[r][Cache], cPayload[r][Scrape],
                          cPayload[r][Load], cPayload[r][Dbt], cPayload[r][Yolo])
       IN /\ CFinish(r, Notify, NotifyResult(raisePoint, sum))
          /\ summaries' = IF raisePoint = "none"
                          THEN [summaries EXCEPT ![SummaryFile(r)] = <<sum>>]
                          ELSE summaries
  /\ UNCHANGED <<auxButConc, runVars, fsVars, sensorVars, schedVars>>

CSkip(r, s) ==
  /\ cStatus[r][s] = "pending"
  /\ \E u \in Upstream(s) : cStatus[r][u] \in {"failed", "skipped"}
  /\ cStatus' = [cStatus EXCEPT ![r][s] = "skipped"]
  /\ UNCHANGED <<auxButConc, cPayload, cRetried, summaries, runVars, fsVars, sensorVars,
                 schedVars>>

NextConcurrent ==
  \E r \in RunIds :
    \/ CScrape(r)
    \/ CLoad(r)
    \/ CDbt(r)
    \/ CYolo(r)
    \/ CCache(r)
    \/ CNotify(r)
    \/ \E s \in Stages : CSkip(r, s)

SpecConcurrent == Init /\ [][NextConcurrent]_vars

\* ------------------------------------------------------- PostgresLoader
\* find_json_files: every json file under the raw-data directory
JsonFiles == {f \in Dates \X Channels : f[1] \in dirs /\ f[2] \in files[f[1]]}

\* load_to_postgres for each file of L: df.to_sql(..., if_exists='append')
AppendRows(table, L) ==
  [f \in DOMAIN table |-> table[f] + (IF f \in L THEN 1 ELSE 0)]

\* One execution of PostgresLoader.run, as the load op calls it in each of
\* its attempts.  It either goes through every json file, or raises at the
\* schema or at a file after the files L before it were appended.
PostgresLoaderRun ==
  /\ loaderRuns < MaxLoads
  /\ \E raised \in BOOLEAN, L \in SUBSET JsonFiles :
       /\ ~raised => L = JsonFiles
       /\ raised => (L # JsonFiles \/ JsonFiles = {})
       /\ telegram_messages' = AppendRows(telegram_messages, L)
  /\ loaderRuns' = loaderRuns + 1
  /\ UNCHANGED <<auxButDb, runVars, fsVars, sensorVars, schedVars>>

\* the raw files are written before the first load and left alone afterwards
RawFilesArrive ==
  /\ loaderRuns = 0
  /\ \/ \E d \in Dates : MkDir(d)
     \/ \E d \in Dates, ch \in Channels : WriteJson(d, ch)

NextLoad ==
  \/ RawFilesArrive
  \/ PostgresLoaderRun

SpecLoad == Init /\ [][NextLoad]_vars

\* --------------------------------------------- run_yolo_enrichment rows
\* run_yolo_enrichment call by call, with the rows it puts in
\* raw.yolo_detections.
\* YOLODetector.load_to_postgres(results): nothing for an empty list, else
\* to_sql(..., if_exists='append') of one row per result; an error is logged
\* and swallowed
LoadToPostgres(n, ok) == IF n = 0 THEN 0 ELSE IF ok THEN n ELSE 0

\* detector = YOLODetector(); results = detector.run(): run() itself ends
\* with self.load_to_postgres(results)
YOLODetectorRun ==
  /\ yoloPc = "start"
  /\ \E raised \in BOOLEAN, n \in 0..MaxResults, ok \in BOOLEAN :
       IF raised
       THEN /\ yoloOutcome' = <<YoloResult(TRUE, 0, FALSE, FALSE)>>
            /\ yoloPc' = "done"
            /\ UNCHANGED <<results, appended, yolo_detections>>
       ELSE /\ results' = <<n>>
            /\ appended' = appended + LoadToPostgres(n, ok)
            /\ yolo_detections' = yolo_detections + LoadToPostgres(n, ok)
            /\ yoloPc' = "detected"
            /\ UNCHANGED yoloOutcome
  /\ UNCHANGED <<executions, auxButYolo, runVars, fsVars, sensorVars, schedVars>>

\* if results: detector.load_to_postgres(results)   else: return "skipped"
OpLoadResults ==
  /\ yoloPc = "detected"
  /\ \E ok \in BOOLEAN :
       IF results[1] = 0
       THEN /\ yoloOutcome' = <<YoloResult(FALSE, 0, FALSE, FALSE)>>
            /\ yoloPc' = "done"
            /\ UNCHANGED <<appended, yolo_detections>>
       ELSE /\ appended' = appended + LoadToPostgres(results[1], ok)
            /\ yolo_detections' = yolo_detections + LoadToPostgres(results[1], ok)
            /\ yoloPc' = "loaded"
            /\ UNCHANGED yoloOutcome
  /\ UNCHANGED <<results, executions, auxButYolo, runVars, fsVars, sensorVars,
                 schedVars>>

\* the yield, the dbt subprocess (check=True) and the return
OpRunDbt ==
  /\ yoloPc = "loaded"
  /\ \E dbtFailed \in BOOLEAN :
       yoloOutcome' = <<YoloResult(FALSE, results[1], FALSE, dbtFailed)>>
  /\ yoloPc' = "done"
  /\ UNCHANGED <<results, appended, yolo_detections, executions, auxButYolo,
                 runVars, fsVars, sensorVars, schedVars>>

\* the RetryPolicy starts the op again after an execution that raised
OpRetry ==
  /\ yoloPc = "done"
  /\ ~yoloOutcome[1].ok
  /\ executions < MaxAttempts(Yolo)
  /\ executions' = executions + 1
  /\ yoloPc' = "start"
  /\ results' = <<>>
  /\ appended' = 0
  /\ yoloOutcome' = <<>>
  /\ UNCHANGED <<yolo_detections, auxButYolo, runVars, fsVars, sensorVars,
                 schedVars>>

NextYolo ==
  \/ YOLODetectorRun
  \/ OpLoadResults
  \/ OpRunDbt
  \/ OpRetry

SpecYolo == Init /\ [][NextYolo]_vars

\* ------------------------------------------------------- scrape_channel
\* The paging loop of TelegramScraper.scrape_channel over one channel.  A
\* channel history is a sequence of messages, newest first, with ids
\* descending to 1; the messages older than start_date are the last ones.
History(nNew, nOld) ==
  [i \in 1..(nNew + nOld) |-> [id |-> nNew + nOld + 1 - i, old |-> i > nNew]]

Histories == {History(a, b) : a \in 0..MaxHistory, b \in 0..MaxHistory}

RECURSIVE SelectBelow(_, _)
SelectBelow(h, off) ==
  IF h = <<>> THEN <<>>
  ELSE IF off = 0 \/ Head(h).id < off THEN h
  ELSE SelectBelow(Tail(h), off)

\* GetHistoryRequest(offset_id=off, limit=lim): the lim newest messages with
\* an id below off, all ids when off is 0
GetHistory(h, off, lim) ==
  LET below == SelectBelow(h, off)
  IN SubSeq(below, 1, IF Len(below) < lim THEN Len(below) ELSE lim)

\* the for loop over one batch: the messages appended before the first one
\* older than start_date
RECURSIVE Appended(_)
Appended(batch) ==
  IF batch = <<>> \/ Head(batch).old THEN 0 ELSE 1 + Appended(Tail(batch))

HasOld(batch) == \E i \in 1..Len(batch) : batch[i].old

\* if len(history.messages) < limit: break
LoopEnds(batch, lim) == Len(batch) < lim

\* after the loop: _save_messages when messages_data is not empty
AfterLoop(n) == IF n > 0 THEN "saved" ELSE "no_messages"

ScrapeChannelStart ==
  /\ pagePc = "idle"
  /\ \E h \in Histories : chanHistory' = h
  /\ offset_id' = 0
  /\ requests' = 0
  /\ messages_data' = 0
  /\ oldSeen' = FALSE
  /\ pagePc' = "loop"
  /\ UNCHANGED <<auxButPage, runVars, fsVars, sensorVars, schedVars>>

\* one iteration of the while loop
ScrapeChannelBatch ==
  /\ pagePc = "loop"
  /\ LET batch == GetHistory(chanHistory, offset_id, limit)
     IN /\ requests' = requests + 1
        /\ IF batch = <<>>
           THEN /\ pagePc' = AfterLoop(messages_data)
                /\ UNCHANGED <<offset_id, messages_data, oldSeen>>
           ELSE /\ messages_data' = messages_data + Appended(batch)
                /\ oldSeen' = (oldSeen \/ HasOld(batch))
                /\ offset_id' = batch[Len(batch)].id
                /\ pagePc' = IF LoopEnds(batch, limit)
                             THEN AfterLoop(messages_data')
                             ELSE "loop"
  /\ UNCHANGED <<chanHistory, auxButPage, runVars, fsVars, sensorVars, schedVars>>

\* an exception inside the try block: logged, 0 returned
ScrapeChannelError ==
  /\ pagePc = "loop"
  /\ pagePc' = "error"
  /\ UNCHANGED <<chanHistory, offset_id, requests, messages_data, oldSeen,
                 auxButPage, runVars, fsVars, sensorVars, schedVars>>

NextPaging ==
  \/ ScrapeChannelStart
  \/ ScrapeChannelBatch
  \/ ScrapeChannelError

SpecPaging == Init /\ [][NextPaging]_vars

\* ================================================================ claims
Terminal == runStatus # "running"

RECURSIVE Ancestors(_)
Ancestors(s) == Upstream(s) \cup UNION {Ancestors(u) : u \in Upstream(s)}

Dependents(s) == {t \in Stages : s \in Ancestors(t)}

\* C1: an op is invoked only when every op it takes an input from has a
\* resolved outcome, so the start order is a topological order of the graph.
C1_StartsAfterUpstreams ==
  \A s \in Stages : attempts[s] > 0 =>
    \A u \in Upstream(s) : status[u] \in Resolved

C1_Witness == attempts[Notify] > 0 /\ attempts[Scrape] > 1

\* C2: once a data op (scrape, load, dbt, yolo) has failed after its retries,
\* none of its transitive dependents is ever invoked, and when the run ends
\* they are all skipped while every other op has succeeded.
C2_FatalSkipsDependents ==
  \A s \in FatalStages : status[s] = "failed" =>
    /\ \A d \in Dependents(s) : attempts[d] = 0
    /\ Terminal =>
         /\ \A d \in Dependents(s) : status[d] = "skipped"
         /\ \A t \in Stages \ (Dependents(s) \cup {s}) : status[t] = "success"

C2_Witness == Terminal /\ status[Dbt] = "failed" /\ status[Notify] = "skipped"

\* the classification of a finished run by its stage outcomes
Classification ==
  IF \E s \in FatalStages : status[s] = "failed" THEN "FAILED"
  ELSE IF payload[Cache] = "failed" \/ payload[Notify] = "notification_failed"
       THEN "PARTIALLY_FAILED"
  ELSE "SUCCEEDED"

RecordedStatus == IF runStatus = "success" THEN "SUCCEEDED" ELSE "FAILED"

SummaryVerdict == IF summary[1].status = "success" THEN "SUCCEEDED" ELSE "FAILED"

\* C3: the status recorded for a finished run is FAILED with a fatal failure,
\* PARTIALLY_FAILED with only tolerated failures, SUCCEEDED otherwise, and the
\* status in the run summary agrees.
C3_StatusClassified ==
  Terminal =>
    /\ RecordedStatus = Classification
    /\ summary # <<>> => SummaryVerdict = Classification

\* C4: when the body of refresh_api_cache raises, the step still succeeds,
\* no step is skipped, the run does not fail and the notification op is
\* invoked in the same run.
C4_CacheFailureTolerated ==
  errors[Cache] > 0 =>
    /\ status[Cache] = "success"
    /\ \A s \in Stages : status[s] # "skipped"
    /\ runStatus # "failure"
    /\ Terminal => attempts[Notify] = 1

C4_Witness == errors[Cache] > 0 /\ Terminal /\ attempts[Notify] = 1

\* C5: an op with a retry policy all of whose attempts failed was invoked
\* exactly max_attempts times when its failed outcome is produced, an op whose
\* first attempt succeeded was invoked once, and no attempt follows a success.
C5_AttemptBudget ==
  \A s \in Stages : HasRetryPolicy(s) =>
    /\ (status[s] \in {"success", "failed"} /\ errors[s] = attempts[s])
         => attempts[s] = MaxAttempts(s)
    /\ (status[s] = "success" /\ errors[s] = 0) => attempts[s] = 1
    /\ status[s] = "success" => errors[s] >= attempts[s] - 1

\* ------------------------------------------------------- sensor claims
Polled == tick' # tick

\* C6 as stated, with every date directory above the cursor a new partition:
\* a completed poll emits one request keyed by the maximum new partition and
\* moves the cursor there, or emits nothing and leaves the cursor.
C6_PollEmitsMaxOfDirs ==
  [][(Polled /\ lastPoll' \in {"ok", "empty"}) =>
       LET new == {d \in dirs : d > CursorOrDefault(cursor)}
       IN IF new # {}
          THEN \E m \in new : /\ \A d \in new : d <= m
                              /\ emitted' = << <<"new_data", m>> >>
                              /\ cursor' = m
          ELSE emitted' = <<>> /\ cursor' = cursor]_vars

\* C6 amended: the new partitions are the date directories above the cursor
\* that hold at least one json file.
C6_PollEmitsMaxOfFiles ==
  [][(Polled /\ lastPoll' \in {"ok", "empty"}) =>
       LET new == {d \in dirs : d > CursorOrDefault(cursor) /\ files[d] # {}}
       IN IF new # {}
          THEN \E m \in new : /\ \A d \in new : d <= m
                              /\ emitted' = << <<"new_data", m>> >>
                              /\ cursor' = m
          ELSE emitted' = <<>> /\ cursor' = cursor]_vars

C6_Witness ==
  /\ lastPoll = "ok"
  /\ cursor = MaxDate
  /\ emitted = << <<"new_data", MaxDate>> >>
  /\ runs = {[key |-> <<"new_data", MaxDate>>, date |-> MaxDate]}
  /\ files[1] # {} /\ 1 \notin stale

\* C7: the persisted cursor never decreases.
C7_CursorMonotonic ==
  [][CursorOrDefault(cursor) <= CursorOrDefault(cursor')]_vars

C7_Witness == cursor = MaxDate /\ Cardinality(runs) >= 2 /\ lastPoll = "empty"

\* C8: every partition holding data at or below the cursor has been covered
\* by a run request, also when it was written after the cursor passed it.
C8_CursorCoversPartitions ==
  \A d \in dirs :
    (files[d] # {} /\ d <= CursorOrDefault(cursor)) => d \notin stale

\* C9: a poll that fails while listing leaves the cursor, emits nothing and
\* launches nothing; the successful poll after it works from the same cursor,
\* so the partitions above it get their run request.
C9_FailedPollKeepsBaseline ==
  [][/\ (Polled /\ lastPoll' = "failed") =>
          cursor' = cursor /\ emitted' = <<>> /\ runs' = runs
     /\ (Polled /\ lastPoll = "failed" /\ lastPoll' \in {"ok", "empty"}) =>
          LET waiting == {d \in dirs : files[d] # {}
                                       /\ d > CursorOrDefault(cursor)}
          IN waiting # {} =>
               /\ Len(emitted') = 1
               /\ \A d \in waiting : d <= cursor']_vars

C9_Witness ==
  lastPoll = "failed" /\ cursor # NoCursor /\ NewFiles(cursor) # {}

\* C10: every run request is keyed by its maximum partition alone, so polls
\* repeated before the cursor advances start at most one run per partition.
C10_OneRunPerPartition ==
  /\ \A r \in runs : r.key = <<"new_data", r.date>>
  /\ \A d \in Dates : Cardinality({r \in runs : r.date = d}) <= 1

C10_Witness ==
  /\ skipped # {}
  /\ cursor = NoCursor
  /\ Cardinality(runs) = 1

\* ----------------------------------------------------- schedule claims
\* C11: a tick of the daily schedule returns a lookback of 1 day; a tick of
\* the weekly schedule returns a lookback of 7 days and no enrichment cap.
C11_ScheduleOverrides ==
  /\ lastTick = "daily" => tickConfig[1].scrape.days_back = 1
  /\ lastTick = "weekly" =>
       /\ tickConfig[1].scrape.days_back = 7
       /\ Len(tickConfig[1].yolo) = 1
       /\ tickConfig[1].yolo[1].max_images = <<>>

C11_Witness ==
  /\ lastTick = "weekly"
  /\ day = 7
  /\ fired = {"daily", "weekly"}

\* ---------------------------------------------------- run claims, cont.
\* the records of this run in the materialization log
TotalRecords ==
  matCount[Scrape] + matCount[Load] + matCount[Dbt] + matCount[Yolo]
    + matCount[Cache] + matCount[Notify]

\* C12 as stated: when the collector, loader, transformer, detector and
\* notifier all succeed, the run succeeds and the log holds exactly 5 records
\* of the run.
C12_FiveRecords ==
  (Terminal /\ \A s \in {Scrape, Load, Dbt, Yolo, Notify} : status[s] = "success")
    => (runStatus = "success" /\ TotalRecords = 5)

\* C12 amended: when all six ops return status "success", the run succeeds
\* and the log holds at least 6 records of the run, exactly 6 (one per op,
\* refresh_api_cache included) when every op was invoked once.
C12_SixRecords ==
  (Terminal /\ \A s \in Stages : payload[s] = "success") =>
    /\ runStatus = "success"
    /\ TotalRecords >= 6
    /\ (\A s \in Stages : attempts[s] = 1) => TotalRecords = 6

C12_Witness ==
  /\ Terminal
  /\ \A s \in Stages : payload[s] = "success" /\ attempts[s] = 1
  /\ TotalRecords = 6

\* C13: at the end of a run every op that was not skipped has exactly one
\* record in the log and every skipped op has none.
C13_OneRecordPerOutcome ==
  Terminal =>
    \A s \in Stages :
      /\ status[s] # "skipped" => matCount[s] = 1
      /\ status[s] = "skipped" => matCount[s] = 0

C15_AuxiliaryFailuresTolerated ==
  \A s \in ToleratedStages : errors[s] > 0 =>
    /\ status[s] = "success"
    /\ payload[s] \in {"failed", "notification_failed"}
    /\ runStatus # "failure"
    /\ \A u \in Stages : status[u] # "skipped"

C15_Witness ==
  /\ Terminal
  /\ errors[Cache] > 0
  /\ errors[Notify] > 0
  /\ runStatus = "success"

\* C16: every finished run is reported with one severity: ERROR with a fatal
\* outcome, WARN when partially failed, INFO when every stage succeeded.
C16_SeverityByOutcome ==
  Terminal =>
    severity = (CASE Classification = "FAILED" -> "ERROR"
                  [] Classification = "PARTIALLY_FAILED" -> "WARN"
                  [] Classification = "SUCCEEDED" -> "INFO")

\* C17: when a run ends, every op that was invoked in it has a record in the
\* materialization log, whatever its outcome.
C17_EveryOutcomeLogged ==
  Terminal => \A s \in Stages : attempts[s] > 0 => matCount[s] >= 1

\* C18: every finished run, a failed one included, has exactly one persisted
\* summary with the run status and the status of each stage.
C18_SummaryPerRun ==
  Terminal =>
    /\ Len(summary) = 1
    /\ summary[1].status \in {"success", "failed"}
    /\ DOMAIN summary[1].components =
         {"scraping", "loading", "dbt", "enrichment", "api_cache"}

\* C20: with a Telegram credential missing the collection op fails at its
\* first invocation and is not invoked again.
C20_ConfigErrorNotRetried ==
  ~credentials =>
    /\ attempts[Scrape] <= 1
    /\ attempts[Scrape] = 1 => status[Scrape] = "failed"

\* ------------------------------------------------- sensor claims, cont.
\* C22: the cursor moves to a partition only in a poll that emitted the run
\* request keyed by that partition, so a cursor above its initial value always
\* has a run request keyed by its value behind it.
C22_CursorAfterRequest ==
  /\ [](cursor # NoCursor =>
          /\ cursor > Epoch
          /\ \E r \in runs : r.key = RunKey(cursor) /\ r.date = cursor)
  /\ [][cursor' # cursor =>
          /\ Polled
          /\ emitted' = <<RunKey(cursor')>>]_vars

C22_Witness ==
  /\ cursor = 1
  /\ lastPoll = "ok"
  /\ emitted = <<RunKey(1)>>
  /\ 2 \in dirs /\ files[2] = {}

\* ---------------------------------------------------- run claims, cont.
InList(x, list) == \E i \in 1..Len(list) : list[i] = x

\* C24: when the detector returns no results the yolo op succeeds with the
\* payload "skipped"; the cache and the notification ops are still invoked in
\* that run and the notification does not list enrichment as failed.
C24_EmptyDetectionSkipped ==
  payload[Yolo] = "skipped" =>
    /\ status[Yolo] = "success"
    /\ matCount[Yolo] = 0 \/ errors[Yolo] > 0
    /\ \A s \in {Cache, Notify} : status[s] # "skipped"
    /\ Terminal => (attempts[Cache] = 1 /\ attempts[Notify] = 1)
    /\ summary # <<>> => ~InList("enrichment", summary[1].failures)
    /\ severity # "ERROR"

C24_Witness ==
  /\ Terminal
  /\ payload[Yolo] = "skipped"
  /\ errors[Yolo] = 0
  /\ attempts[Notify] = 1
  /\ summary # <<>>
  /\ summary[1].components.enrichment = "skipped"

\* C26: whenever the notification op is invoked, the scrape, load and dbt
\* payloads it receives are "success" and the enrichment payload is "success"
\* or "skipped"; so its failures list is empty, the severity it reports is
\* INFO and the summary it writes has status "success", also when
\* refresh_api_cache returned "failed".
C26_NotifierSeesSuccess ==
  attempts[Notify] > 0 =>
    /\ \A s \in {Scrape, Load, Dbt} : payload[s] = "success"
    /\ payload[Yolo] \in {"success", "skipped"}
    /\ payload[Cache] \in {"success", "failed"}
    /\ severity # "none" => severity = "INFO"
    /\ summary # <<>> =>
         /\ summary[1].failures = <<>>
         /\ summary[1].status = "success"
    /\ payload[Notify] \in {"success", "notification_failed"}

C26_Witness ==
  /\ attempts[Notify] = 1
  /\ payload[Cache] = "failed"
  /\ severity = "INFO"
  /\ summary # <<>>
  /\ summary[1].components.api_cache = "failed"

\* C29: scrape_telegram_data succeeds only through an attempt that itself
\* wrote a json file in today's partition; an attempt that wrote none does
\* not succeed, also when today's directory exists from an earlier attempt
\* or run.
C29_SuccessNeedsOwnFile ==
  status[Scrape] = "success" => wroteToday

\* ------------------------------------------------ triggered-run claims
\* C27: a run launched by the sensor does not invoke the collector and so
\* creates no partition; once the cursor has been moved to the maximum
\* partition and nothing arrives from outside, no later poll emits a request.
C27_NoSelfTrigger ==
  /\ [](runs # {} => attempts[Scrape] = 0)
  /\ [][(cursor # NoCursor /\ Polled) => emitted' = <<>>]_vars

\* ---------------------------------------------------------- load claims
\* C28: over an unchanged set of raw files, however often the load is
\* executed (a retry after a failure part-way, or a later run), the rows of
\* each raw file are in raw.telegram_messages at most once.
C28_LoadIdempotent ==
  \A f \in Dates \X Channels : telegram_messages[f] <= 1

\* ---------------------------------------------------------- yolo claims
\* C30: a successful execution of run_yolo_enrichment has appended to
\* raw.yolo_detections exactly one row per result the detector returned.
C30_OneRowPerResult ==
  (yoloPc = "done" /\ yoloOutcome[1].payload = "success") =>
    appended = results[1]

\* -------------------------------------------------------- paging claims
\* C25: once scrape_channel has met a message older than start_date it issues
\* no further GetHistoryRequest, and the loop ends after at most one request
\* per message of the history and one more.
C25_StopsAtStartDate ==
  /\ [][oldSeen => requests' = requests]_vars
  /\ [](requests <= Len(chanHistory) + 1)

\* ------------------------------------------------- concurrent-run claims
\* the components a run would put in its summary
COwnComponents(r) ==
  [scraping |-> cPayload[r][Scrape], loading |-> cPayload[r][Load],
   dbt |-> cPayload[r][Dbt], enrichment |-> cPayload[r][Yolo],
   api_cache |-> cPayload[r][Cache]]

CChanged(r) ==
  cStatus'[r] # cStatus[r] \/ cPayload'[r] # cPayload[r]
    \/ summaries'[SummaryFile(r)] # summaries[SummaryFile(r)]

CCanStep(r) ==
  \E s \in Stages :
    \/ CReady(r, s)
    \/ cStatus[r][s] = "pending"
         /\ \E u \in Upstream(s) : cStatus[r][u] \in {"failed", "skipped"}

\* C23: with two runs active together, a step changes the outcomes and the
\* summary of one run only, a run that has not ended can always take a step
\* whatever the other run does, and the summary file of a run, once written,
\* holds the payloads of that run.
C23_RunsIndependent ==
  /\ [](\A r \in RunIds :
          /\ ~CResolved(r) => CCanStep(r)
          /\ summaries[SummaryFile(r)] # <<>> =>
               /\ cStatus[r][Notify] = "success"
               /\ summaries[SummaryFile(r)][1].components = COwnComponents(r))
  /\ [][\A r, q \in RunIds : (CChanged(r) /\ q # r) => ~CChanged(q)]_vars

C23_Witness ==
  /\ \A r \in RunIds : CResolved(r) /\ summaries[SummaryFile(r)] # <<>>
  /\ cPayload["daily"][Cache] = "failed"
  /\ cPayload["weekly"][Cache] = "success"
  /\ cPayload["weekly"][Yolo] = "skipped"

====
